---- MODULE Spec2Model ----
(***************************************************************************)
(* Model of src/It-Ticket-Gen.py: the reply extractor parse_json_from_text *)
(* and the invocations made on one reply text.                             *)
(*                                                                         *)
(* A text is a sequence of lexemes.  Each lexeme is one character of the   *)
(* Python string, except the words "json", "user", "issue", "IT User" and  *)
(* "Technical issue requiring assistance", which stand for their letters   *)
(* and are never split by any operation of the code on these inputs.       *)
(***************************************************************************)
EXTENDS Integers, Sequences, FiniteSets, TLC

\* the invocations of the extractor on one reply text
VARIABLES text, now, pc, first, second

\* st.session_state (lines 74-85), the value held by the model selectbox
\* (line 387), whether st.rerun() is pending, and the message the last script
\* run displayed
VARIABLES ticket, validation, agent_response, selected_model,
          solution_effective, available_models_working,
          model_selector, rerun, shown

evars == <<text, now, pc, first, second>>

svars == <<ticket, validation, agent_response, selected_model,
           solution_effective, available_models_working,
           model_selector, rerun, shown>>

vars == <<evars, svars>>

----------------------------------------------------------------------------
(* Bounds of the model *)

\* the clock read by datetime.now() runs over 0..MaxClock
MaxClock == 2
\* field values of the generated JSON replies have 1..MaxValLen lexemes
MaxValLen == 3
\* the generated API catalogs have 0..MaxCatalog entries
MaxCatalog == 3

----------------------------------------------------------------------------
(* Lexemes *)

Q == "\""
BS == "\\"
\* one backtick character
BT == "tick"
NL == "\n"
LB == "{"
RB == "}"

\* str.strip() and the regex class \s, and JSON whitespace: blank and newline
IsSpace(c) == c \in {" ", NL}

Fence == <<BT, BT, BT>>
FenceJson == <<BT, BT, BT, "json">>

Min(S) == CHOOSE x \in S : \A y \in S : x <= y
Max(S) == CHOOSE x \in S : \A y \in S : x >= y

----------------------------------------------------------------------------
(* Python string operations used by the extractor *)

RECURSIVE lstrip(_)
lstrip(s) ==
    IF s # <<>> /\ IsSpace(Head(s)) THEN lstrip(Tail(s)) ELSE s

RECURSIVE rstrip(_)
rstrip(s) ==
    IF s # <<>> /\ IsSpace(s[Len(s)]) THEN rstrip(SubSeq(s, 1, Len(s) - 1)) ELSE s

strip(s) == rstrip(lstrip(s))

\* str.replace(pat, empty): every non-overlapping occurrence, scanning from the left
RECURSIVE replace(_, _)
replace(s, pat) ==
    IF Len(s) < Len(pat) THEN s
    ELSE IF SubSeq(s, 1, Len(pat)) = pat
         THEN replace(SubSeq(s, Len(pat) + 1, Len(s)), pat)
         ELSE <<Head(s)>> \o replace(Tail(s), pat)

\* a faulty cleaning: keeps only what precedes the first fence, as
\* cleaned_text.split(fence)[0] would
RECURSIVE before_fence(_)
before_fence(s) ==
    IF Len(s) < Len(Fence) THEN s
    ELSE IF SubSeq(s, 1, Len(Fence)) = Fence THEN <<>>
    ELSE <<Head(s)>> \o before_fence(Tail(s))

clean_text_split(t) == strip(before_fence(strip(t)))

\* lines 188-189: strip, drop every fence+json, drop every fence, strip
clean_text(t) == strip(replace(replace(strip(t), FenceJson), Fence))

\* a faulty span search: the non-greedy pattern, from the first { to the
\* first } after it
json_match_first_close(s) ==
    LET opens == {i \in 1..Len(s) : s[i] = LB}
        closes == {j \in 1..Len(s) : s[j] = RB}
    IN  IF opens = {} THEN [found |-> FALSE, str |-> <<>>]
        ELSE LET a == Min(opens)
                 bs == {j \in closes : j > a}
             IN  IF bs = {} THEN [found |-> FALSE, str |-> <<>>]
                 ELSE [found |-> TRUE, str |-> SubSeq(s, a, Min(bs))]

\* line 192: re.search of {.*} with DOTALL: from the first {
\* to the last } after it
json_match(s) ==
    LET opens == {i \in 1..Len(s) : s[i] = LB}
        closes == {j \in 1..Len(s) : s[j] = RB}
    IN  IF opens = {} THEN [found |-> FALSE, str |-> <<>>]
        ELSE LET a == Min(opens)
                 bs == {j \in closes : j > a}
             IN  IF bs = {} THEN [found |-> FALSE, str |-> <<>>]
                 ELSE [found |-> TRUE, str |-> SubSeq(s, a, Max(bs))]

----------------------------------------------------------------------------
(* json.loads, line 195.  A Python dict is a function from keys to values; *)
(* a value is [t |-> "str", s |-> its characters], [t |-> "num", s |-> its *)
(* digits] or, for a nested object, [t |-> "obj", s |-> its source text].  *)

Fail == [ok |-> FALSE, val |-> <<>>, pos |-> 0]

\* json.decoder WHITESPACE.match(s, i).end()
RECURSIVE skip_ws(_, _)
skip_ws(s, i) ==
    IF i <= Len(s) /\ IsSpace(s[i]) THEN skip_ws(s, i + 1) ELSE i

\* json.decoder.scanstring, strict: i is the index after the opening quote.
\* The escapes of a quote and of a backslash decode to that character and
\* the escape of the letter n to a newline; every other lexeme after a
\* backslash is an invalid escape; a raw newline is an invalid control
\* character; a missing closing quote is an error.
RECURSIVE scanstring(_, _, _)
scanstring(s, i, acc) ==
    IF i > Len(s) THEN Fail
    ELSE IF s[i] = Q THEN [ok |-> TRUE, val |-> acc, pos |-> i + 1]
    ELSE IF s[i] = BS
         THEN IF i + 1 <= Len(s) /\ s[i + 1] \in {Q, BS}
              THEN scanstring(s, i + 2, Append(acc, s[i + 1]))
              ELSE IF i + 1 <= Len(s) /\ s[i + 1] = "n"
                   THEN scanstring(s, i + 2, Append(acc, NL))
                   ELSE Fail
    ELSE IF s[i] = NL THEN Fail
    ELSE scanstring(s, i + 1, Append(acc, s[i]))

\* json.scanner NUMBER_RE on the digit 7
RECURSIVE scan_number(_, _)
scan_number(s, i) ==
    IF i <= Len(s) /\ s[i] = "7" THEN scan_number(s, i + 1) ELSE i

RECURSIVE JSONObject(_, _)
RECURSIVE JSONMembers(_, _, _)

\* json.scanner scan_once at index i: a string, an object or a number
scan_once(s, i) ==
    IF i > Len(s) THEN Fail
    ELSE IF s[i] = Q
         THEN LET r == scanstring(s, i + 1, <<>>)
              IN  IF r.ok THEN [ok |-> TRUE, val |-> [t |-> "str", s |-> r.val], pos |-> r.pos]
                  ELSE Fail
    ELSE IF s[i] = LB
         THEN LET r == JSONObject(s, i + 1)
              IN  IF r.ok
                  THEN [ok |-> TRUE,
                        val |-> [t |-> "obj", s |-> SubSeq(s, i, r.pos - 1)],
                        pos |-> r.pos]
                  ELSE Fail
    ELSE IF s[i] = "7"
         THEN LET e == scan_number(s, i)
              IN  [ok |-> TRUE, val |-> [t |-> "num", s |-> SubSeq(s, i, e - 1)], pos |-> e]
    ELSE Fail

\* the loop of json.decoder.JSONObject: i is the index after the opening
\* quote of a key; a repeated key keeps its last value
JSONMembers(s, i, acc) ==
    LET k == scanstring(s, i, <<>>)
    IN  IF ~k.ok THEN Fail
        ELSE LET c == skip_ws(s, k.pos)
             IN  IF c > Len(s) \/ s[c] # ":" THEN Fail
                 ELSE LET v == scan_once(s, skip_ws(s, c + 1))
                      IN  IF ~v.ok THEN Fail
                          ELSE LET d == (k.val :> v.val) @@ acc
                                   e == skip_ws(s, v.pos)
                               IN  IF e > Len(s) THEN Fail
                                   ELSE IF s[e] = RB
                                        THEN [ok |-> TRUE, val |-> d, pos |-> e + 1]
                                   ELSE IF s[e] # "," THEN Fail
                                   ELSE LET n == skip_ws(s, e + 1)
                                        IN  IF n > Len(s) \/ s[n] # Q THEN Fail
                                            ELSE JSONMembers(s, n + 1, d)

\* json.decoder.JSONObject: i is the index after the opening brace
JSONObject(s, i) ==
    LET n == skip_ws(s, i)
    IN  IF n > Len(s) THEN Fail
        ELSE IF s[n] = RB THEN [ok |-> TRUE, val |-> <<>>, pos |-> n + 1]
        ELSE IF s[n] # Q THEN Fail
        ELSE JSONMembers(s, n + 1, <<>>)

\* json.loads on a text that starts with an opening brace: the object, then
\* nothing but whitespace; anything else raises JSONDecodeError
json_loads(s) ==
    IF s = <<>> \/ Head(s) # LB THEN [ok |-> FALSE, val |-> <<>>]
    ELSE LET r == JSONObject(s, 2)
         IN  IF r.ok /\ skip_ws(s, r.pos) = Len(s) + 1
             THEN [ok |-> TRUE, val |-> r.val]
             ELSE [ok |-> FALSE, val |-> <<>>]

----------------------------------------------------------------------------
(* The pattern search of lines 205 and 210 *)

\* the first index after i that holds a quote, or 0
next_quote(s, i) ==
    LET qs == {k \in (i + 1)..Len(s) : s[k] = Q}
    IN  IF qs = {} THEN 0 ELSE Min(qs)

\* re.search of "<field>":\s*"([^"]+)" : the leftmost place where the quoted
\* key, a colon, any whitespace, a quote, one or more non-quote characters and
\* a quote follow one another; group(1) is the characters between the quotes
field_match(s, field) ==
    LET starts_at(i) ==
            /\ i + 3 <= Len(s)
            /\ s[i] = Q /\ s[i + 1] = field /\ s[i + 2] = Q /\ s[i + 3] = ":"
            /\ LET j == skip_ws(s, i + 4)
               IN  /\ j <= Len(s)
                   /\ s[j] = Q
                   /\ next_quote(s, j) > j + 1
        hits == {i \in 1..Len(s) : starts_at(i)}
    IN  IF hits = {} THEN [found |-> FALSE, group |-> <<>>]
        ELSE LET i == Min(hits)
                 j == skip_ws(s, i + 4)
             IN  [found |-> TRUE, group |-> SubSeq(s, j + 1, next_quote(s, j) - 1)]

----------------------------------------------------------------------------
(* parse_json_from_text, lines 184-217 *)

Str(s) == [t |-> "str", s |-> s]

\* lines 199-200: the fixed fallback values
FallbackUser == <<"IT User">>
FallbackIssue == <<"Technical issue requiring assistance">>

\* line 201: datetime.now().strftime(...), a text fixed by the clock
strftime(clock) == <<ToString(clock)>>

\* a faulty record: the clock text also goes into the fallback user
manual_ticket_stamped_user(cleaned, clock) ==
    LET u == field_match(cleaned, "user")
        i == field_match(cleaned, "issue")
    IN  (<<"user">> :> Str(IF u.found THEN u.group ELSE FallbackUser \o strftime(clock)))
        @@ (<<"issue">> :> Str(IF i.found THEN i.group ELSE FallbackIssue))
        @@ (<<"timestamp">> :> Str(strftime(clock)))

\* lines 198-214: the record built by hand
manual_ticket(cleaned, clock) ==
    LET u == field_match(cleaned, "user")
        i == field_match(cleaned, "issue")
    IN  (<<"user">> :> Str(IF u.found THEN u.group ELSE FallbackUser))
        @@ (<<"issue">> :> Str(IF i.found THEN i.group ELSE FallbackIssue))
        @@ (<<"timestamp">> :> Str(strftime(clock)))

\* What a call returns: a dict (none = FALSE) or None, and the return
\* statement that produced it: "json" (line 195), "manual" (line 214) or
\* "except" (line 217, after json.loads raised).
parse_json_from_text(t, clock) ==
    LET cleaned == clean_text(t)
        m == json_match(cleaned)
    IN  IF m.found
        THEN LET r == json_loads(m.str)
             IN  IF r.ok
                 THEN [none |-> FALSE, via |-> "json", rec |-> r.val]
                 ELSE [none |-> TRUE, via |-> "except", rec |-> <<>>]
        ELSE [none |-> FALSE, via |-> "manual", rec |-> manual_ticket(cleaned, clock)]

----------------------------------------------------------------------------
(* The reply texts the model is run on *)

\* the characters of the generated field values
ValAlphabet == {"x", BT, Q, " "}

\* every value of 1..MaxValLen characters
Vals == UNION {[1..n -> ValAlphabet] : n \in 1..MaxValLen}

SimpleVals == {<<"x">>, <<"x", BS, "x">>, <<RB, "x", LB>>}

\* json.dumps of a string: quotes around it, a backslash before every quote
\* and backslash, a newline written as backslash and n
RECURSIVE escape(_)
escape(v) ==
    IF v = <<>> THEN <<>>
    ELSE (IF Head(v) \in {Q, BS} THEN <<BS, Head(v)>>
          ELSE IF Head(v) = NL THEN <<BS, "n">>
          ELSE <<Head(v)>>) \o escape(Tail(v))

dumps_str(v) == <<Q>> \o escape(v) \o <<Q>>

\* json.dumps of the object with the two required fields
dumps(u, i) ==
    <<LB, Q, "user", Q, ":", " ">> \o dumps_str(u)
        \o <<",", " ", Q, "issue", Q, ":", " ">> \o dumps_str(i) \o <<RB>>

\* json.dumps of a record built by hand: its three keys in insertion order
dumps_ticket(rec) ==
    <<LB, Q, "user", Q, ":", " ">> \o dumps_str(rec[<<"user">>].s)
        \o <<",", " ", Q, "issue", Q, ":", " ">> \o dumps_str(rec[<<"issue">>].s)
        \o <<",", " ", Q, "timestamp", Q, ":", " ">> \o dumps_str(rec[<<"timestamp">>].s)
        \o <<RB>>

\* the value pairs of the well-formed replies
ValuePairs == (Vals \X SimpleVals) \cup (SimpleVals \X Vals)

WellFormed == {dumps(p[1], p[2]) : p \in ValuePairs}

\* source texts of a member value: a string (possibly empty), a number, an object
ValueTexts == {dumps_str(v) : v \in SimpleVals \cup {<<>>, <<" ">>, <<" ", " ">>}}
                 \cup {<<"7">>, <<"7", "7">>, <<LB, RB>>}

member(key, vt) == <<Q, key, Q, ":">> \o vt

\* objects with one or both required fields, values of any kind, written
\* without blanks, and objects with other keys
OtherObjects ==
    {<<LB>> \o member("user", a) \o <<",">> \o member("issue", b) \o <<RB>> :
        a \in ValueTexts, b \in ValueTexts}
    \cup {<<LB>> \o member(k, a) \o <<RB>> : k \in {"user", "issue", "x"}, a \in ValueTexts}
    \cup {<<LB, RB>>,
          <<LB>> \o member("user", dumps_str(<<"x">>)) \o <<",">>
                 \o member("user", dumps_str(<<"x", "x">>)) \o <<RB>>}

\* every proper prefix of a well-formed reply: the truncated replies
Truncated ==
    LET b == dumps(<<"x">>, <<"x", " ", "x">>)
    IN  {SubSeq(b, 1, n) : n \in 0..(Len(b) - 1)}

\* replies whose brace span is not JSON, and prose
Broken ==
    {<<"x", " ", "x">>, <<RB, LB>>, <<RB>>, <<LB, "x", RB>>,
     <<LB>> \o member("user", dumps_str(<<"x">>)) \o <<",", RB>>,
     <<LB>> \o member("user", dumps_str(<<"x">>)) \o <<",">> \o member("issue", <<>>) \o <<RB>>,
     <<LB>> \o member("user", dumps_str(<<"x">>)) \o <<RB, " ", "x", " ", LB>>
            \o member("issue", dumps_str(<<"x">>)) \o <<RB>>,
     <<LB>> \o member("user", <<Q, "x", NL, "x", Q>>) \o <<RB>>,
     member("user", <<" ", NL>> \o dumps_str(<<"x", NL, "x">>))
            \o <<" ">> \o member("issue", dumps_str(<<>>)),
     <<Q, "user", Q, " ", ":">> \o dumps_str(<<"x">>),
     member("user", <<Q, RB, "x", LB, Q>>),
     member("issue", <<Q, "x", BS, "x", Q>>),
     <<LB>> \o member("user", <<"7", "x">>) \o <<RB>>,
     <<LB>> \o member("user", <<Q, BS, "x", Q>>) \o <<RB>>}

Bodies == WellFormed \cup OtherObjects \cup Truncated \cup Broken

\* a body wrapped in markdown code fences, with or without the language tag
\* and with or without line breaks
FenceWraps(b) ==
    {FenceJson \o <<NL>> \o b \o <<NL>> \o Fence,
     Fence \o <<NL>> \o b \o <<NL>> \o Fence,
     FenceJson \o b \o Fence,
     Fence \o b \o Fence}

\* a body as the model may send it: bare, fenced, after prose, padded
Wraps(b) ==
    {b, <<"x", " ">> \o b, <<" ", NL>> \o b \o <<NL>>} \cup FenceWraps(b)

Inputs == UNION {Wraps(b) : b \in Bodies}

----------------------------------------------------------------------------
(* Model ids.  An id is a sequence of lexemes; a substring test of the code *)
(* asks whether the id holds the lexeme.                                    *)

Chimera == <<"tngtech/", "deepseek-r1t-chimera", ":free">>
Gemini == <<"google/", "gemini-2.0-flash-exp", ":free">>
Llama32 == <<"meta-llama/", "llama-3.2", "-3b-instruct", ":free">>
Llama31 == <<"meta-llama/", "llama-3.1", "-8b-instruct", ":free">>
Qwen == <<"qwen/", "qwen-2.5-32b-instruct", ":free">>
Phi == <<"microsoft/", "phi-3.5-mini-instruct", ":free">>
DeepseekR1 == <<"deepseek/", "deepseek-r1", ":free">>
DeepseekCoder == <<"deepseek/", "deepseek-coder-v2-lite-instruct", ":free">>
OpenChat == <<"openchat/", "openchat-7b", ":free">>
Dolphin == <<"cognitivecomputations/", "dolphin-2.9.2-", "llama-3.1", "-8b", ":free">>
Nemotron == <<"nvidia/", "llama-3.1", "-nemotron-70b-instruct", ":free">>
Mistral == <<"mistralai/", "mistral-7b-instruct", ":free">>

\* lines 58-71
FREE_MODELS ==
    <<Chimera, Gemini, Llama32, Llama31, Qwen, Phi, DeepseekR1, DeepseekCoder,
      OpenChat, Dolphin, Nemotron, Mistral>>

\* ids a catalog may hold besides the curated ones: paid models, a free
\* vision model, a vision model in capitals, an embedding model, an empty id
Gpt4o == <<"openai/", "gpt-4o">>
Gpt4oMini == <<"openai/", "gpt-4o", "-mini">>
Sonnet == <<"anthropic/", "claude-3.5-sonnet">>
GeminiPro == <<"google/", "gemini-pro-1.5">>
MistralLarge == <<"mistralai/", "mistral-large">>
Grok == <<"x-ai/", "grok-2">>
Llama32Vision == <<"meta-llama/", "llama-3.2", "-11b-", "vision", "-instruct", ":free">>
VisionPro == <<"acme/", "Vision", "-pro">>
Embedding == <<"openai/", "text-", "embed", "ding-3-small">>
EmptyId == <<>>

\* `part in model_id`
Contains(id, part) == \E i \in 1..Len(id) : id[i] = part

\* model_id.lower()
lower(id) == [i \in 1..Len(id) |-> IF id[i] = "Vision" THEN "vision" ELSE id[i]]

\* `x in list`
InList(x, list) == \E i \in 1..Len(list) : list[i] = x

\* list.index(x) + 1
IndexOf(x, list) == Min({i \in 1..Len(list) : list[i] = x})

\* list.insert(idx, x) with a 0-based idx >= 0: past the end it appends
py_insert(list, idx, x) ==
    LET k == IF idx > Len(list) THEN Len(list) ELSE idx
    IN  SubSeq(list, 1, k) \o <<x>> \o SubSeq(list, k + 1, Len(list))

\* list[:n]
py_head(list, n) == SubSeq(list, 1, IF n < Len(list) THEN n ELSE Len(list))

\* line 122: paid_models[:5]
PaidLimit == 5
\* line 131: all_models[:15]
ListLimit == 15

----------------------------------------------------------------------------
(* get_available_models_from_api, lines 87-138 *)

\* lines 110-117: where a free model goes in free_models
place_free(free, id) ==
    IF Contains(id, "deepseek-r1t-chimera") THEN py_insert(free, 0, id)
    ELSE IF Contains(id, "gemini-2.0-flash-exp")
         THEN py_insert(free, IF 1 < Len(free) THEN 1 ELSE Len(free), id)
    ELSE IF Contains(id, "llama-3.2")
         THEN py_insert(free, IF 2 < Len(free) THEN 2 ELSE Len(free), id)
    ELSE Append(free, id)

\* lines 102-119: the loop over the catalog
RECURSIVE scan_catalog(_, _, _, _)
scan_catalog(data, i, free, paid) ==
    IF i > Len(data) THEN [free |-> free, paid |-> paid]
    ELSE LET id == data[i]
         IN  IF id = EmptyId THEN scan_catalog(data, i + 1, free, paid)
             ELSE IF Contains(lower(id), "vision") \/ Contains(lower(id), "embed")
                  THEN scan_catalog(data, i + 1, free, paid)
             ELSE IF Contains(id, ":free")
                  THEN scan_catalog(data, i + 1, place_free(free, id), paid)
             ELSE scan_catalog(data, i + 1, free, Append(paid, id))

\* lines 127-129: the loop over the curated models
RECURSIVE add_curated(_, _, _)
add_curated(all, free, i) ==
    IF i > Len(FREE_MODELS) THEN all
    ELSE LET m == FREE_MODELS[i]
         IN  IF ~InList(m, all) /\ InList(m, free)
             THEN add_curated(py_insert(all, 0, m), free, i + 1)
             ELSE add_curated(all, free, i + 1)

\* An API reply is [ok |-> the request returned status 200 and a JSON body,
\* data |-> the ids of its "data" list]; a failed request, another status or
\* an empty result gives the curated list (line 138).
get_available_models_from_api(api) ==
    IF ~api.ok THEN FREE_MODELS
    ELSE LET r == scan_catalog(api.data, 1, <<>>, <<>>)
             all == r.free \o py_head(r.paid, PaidLimit)
         IN  IF all # <<>>
             THEN py_head(add_curated(all, r.free, 1), ListLimit)
             ELSE FREE_MODELS

----------------------------------------------------------------------------
(* Session state *)

\* Python None and a str, for validation and solution_effective
PyNone == [none |-> TRUE, s |-> ""]
Some(s) == [none |-> FALSE, s |-> s]

\* st.session_state.ticket is None
NoTicket == [none |-> TRUE, rec |-> <<>>]

\* lines 74-85
SessionStart ==
    /\ ticket = NoTicket
    /\ validation = PyNone
    /\ agent_response = ""
    /\ selected_model = Chimera
    /\ solution_effective = PyNone
    /\ available_models_working = <<>>
    /\ model_selector = Chimera
    /\ rerun = FALSE
    /\ shown = ""

----------------------------------------------------------------------------
(* Two invocations of the extractor on one reply, the clock advancing *)

NoResult == [none |-> TRUE, via |-> "not called", rec |-> <<>>]

Init ==
    /\ text \in Inputs
    /\ now = 0
    /\ pc = "start"
    /\ first = NoResult
    /\ second = NoResult
    /\ SessionStart

\* a first call parse_json_from_text(text)
Call1 ==
    /\ pc = "start"
    /\ first' = parse_json_from_text(text, now)
    /\ pc' = "once"
    /\ UNCHANGED <<text, now, second>>
    /\ UNCHANGED svars

\* a later call on the same text
Call2 ==
    /\ pc = "once"
    /\ second' = parse_json_from_text(text, now)
    /\ pc' = "twice"
    /\ UNCHANGED <<text, now, first>>
    /\ UNCHANGED svars

\* time passes between the calls
Tick ==
    /\ pc = "once"
    /\ now < MaxClock
    /\ now' = now + 1
    /\ UNCHANGED <<text, pc, first, second>>
    /\ UNCHANGED svars

Next == Call1 \/ Call2 \/ Tick

Spec == Init /\ [][Next]_vars

----------------------------------------------------------------------------
(* Reading a returned record *)

UserKey == <<"user">>
IssueKey == <<"issue">>
Required == {"user", "issue"}

Fallback(f) == IF f = "user" THEN FallbackUser ELSE FallbackIssue

\* the record holds the field as a string
HasStr(rec, f) == <<f>> \in DOMAIN rec /\ rec[<<f>>].t = "str"

\* the pattern of lines 205/210 finds the field in the cleaned text
Matched(t, f) == field_match(clean_text(t), f)

\* the brace span of line 192 exists and json.loads raises on it
SpanFails(t) ==
    LET m == json_match(clean_text(t))
    IN  m.found /\ ~json_loads(m.str).ok

\* the brace span of line 192 exists and json.loads accepts it
SpanParses(t) ==
    LET m == json_match(clean_text(t))
    IN  m.found /\ json_loads(m.str).ok

\* the tier that produced a result, read off the return statement taken:
\* line 195 is the strict-JSON tier, line 214 the pattern tier when a pattern
\* matched and the fallback tier when none did, line 217 returns no record
tier_status(t, ret) ==
    IF ret.via = "json" THEN "FULL"
    ELSE IF ret.via = "manual"
         THEN IF \E f \in Required : Matched(t, f).found THEN "PARTIAL" ELSE "FALLBACK"
    ELSE "NONE"

called == pc # "start"

----------------------------------------------------------------------------
(* Claims *)

\* C1: for every input text the extractor returns a record, never None.
C1_Totality == called => ~first.none

\* C2: every returned record holds user and issue as strings, and a field the
\* pattern tier did not recover holds its fallback constant.
C2_RequiredFields ==
    (called /\ ~first.none) =>
        \A f \in Required :
            /\ HasStr(first.rec, f)
            /\ (first.via = "manual" /\ ~Matched(text, f).found)
                   => first.rec[<<f>>].s = Fallback(f)

\* C3: a well-formed JSON object with exactly the two required fields, both
\* non-empty strings of any characters, is returned verbatim by the
\* strict-JSON tier.
C3_RoundTrip ==
    \A p \in ValuePairs :
        (called /\ text = dumps(p[1], p[2])) =>
            /\ tier_status(text, first) = "FULL"
            /\ HasStr(first.rec, "user") /\ first.rec[UserKey].s = p[1]
            /\ HasStr(first.rec, "issue") /\ first.rec[IssueKey].s = p[2]

\* C4: when the brace span does not parse, the pattern tier runs: a record is
\* returned and holds every field the pattern matches.
C4_FallThrough ==
    (called /\ SpanFails(text)) =>
        /\ ~first.none
        /\ \A f \in Required :
               Matched(text, f).found =>
                   HasStr(first.rec, f) /\ first.rec[<<f>>].s = Matched(text, f).group

\* the parsed object holds a required field whose value is a blank string
ParsedHasBlank(t) ==
    /\ SpanParses(t)
    /\ LET d == json_loads(json_match(clean_text(t)).str).val
       IN  \E f \in Required : HasStr(d, f) /\ strip(d[<<f>>].s) = <<>>

\* C5: a parsed object with an empty or whitespace-only required field is
\* rejected by tier 1; the result is the pattern tier's: matched fields from
\* the pattern, the others their fallback constants, status PARTIAL or FALLBACK.
C5_EmptyFieldInvalidation ==
    (called /\ ParsedHasBlank(text)) =>
        /\ ~first.none
        /\ tier_status(text, first) \in {"PARTIAL", "FALLBACK"}
        /\ \A f \in Required :
               /\ HasStr(first.rec, f)
               /\ first.rec[<<f>>].s =
                      (IF Matched(text, f).found THEN Matched(text, f).group ELSE Fallback(f))

\* no substring of the cleaned text is a JSON object
NoCompleteObject(t) ==
    LET s == clean_text(t)
    IN  \A i \in 1..Len(s) : \A j \in i..Len(s) :
            (s[i] = LB /\ s[j] = RB) => ~json_loads(SubSeq(s, i, j)).ok

\* C6: a text without a complete JSON object in which a required field
\* matches the pattern yields a record with the matched values, the fallback
\* constant for each unmatched field, and status PARTIAL.
C6_PartialRecovery ==
    (called /\ NoCompleteObject(text) /\ \E f \in Required : Matched(text, f).found) =>
        /\ ~first.none
        /\ tier_status(text, first) = "PARTIAL"
        /\ \A f \in Required :
               /\ HasStr(first.rec, f)
               /\ first.rec[<<f>>].s =
                      (IF Matched(text, f).found THEN Matched(text, f).group ELSE Fallback(f))

\* C7: when the strict-JSON tier accepts nothing and no field matches the
\* pattern, the record holds both fallback constants, status FALLBACK.
C7_NoSignal ==
    (called /\ ~SpanParses(text) /\ \A f \in Required : ~Matched(text, f).found) =>
        /\ ~first.none
        /\ tier_status(text, first) = "FALLBACK"
        /\ HasStr(first.rec, "user") /\ first.rec[UserKey].s = FallbackUser
        /\ HasStr(first.rec, "issue") /\ first.rec[IssueKey].s = FallbackIssue

\* C8: a payload that extracts with status FULL extracts to the same result
\* when wrapped in code fences, with or without a language tag.
C8_FenceTolerance ==
    (called /\ tier_status(text, first) = "FULL") =>
        \A w \in FenceWraps(text) : parse_json_from_text(w, now) = first

\* a fenced reply was extracted by the strict-JSON tier with both fields
C8_Witness ==
    /\ called
    /\ tier_status(text, first) = "FULL"
    /\ HasStr(first.rec, "user") /\ HasStr(first.rec, "issue")
    /\ \E b \in WellFormed : text \in FenceWraps(b)

\* the fence occurs in the value
ContainsFence(v) == \E i \in 1..(Len(v) - 2) : SubSeq(v, i, i + 2) = Fence

\* C9: a triple backtick inside a JSON string value survives the cleaning:
\* the extracted values equal the values of the source object, fenced or not.
C9_FenceInsideValue ==
    \A p \in ValuePairs :
        (/\ called
         /\ ContainsFence(p[1]) \/ ContainsFence(p[2])
         /\ text \in FenceWraps(dumps(p[1], p[2])) \cup {dumps(p[1], p[2])}) =>
            /\ HasStr(first.rec, "user") /\ first.rec[UserKey].s = p[1]
            /\ HasStr(first.rec, "issue") /\ first.rec[IssueKey].s = p[2]

TimestampKey == <<"timestamp">>

C11_Idempotence ==
    (called /\ first.via = "manual") =>
        LET t2 == dumps_ticket(first.rec)
            again == parse_json_from_text(t2, now)
        IN  /\ tier_status(t2, again) = "FULL"
            /\ HasStr(again.rec, "user") /\ again.rec[UserKey] = first.rec[UserKey]
            /\ HasStr(again.rec, "issue") /\ again.rec[IssueKey] = first.rec[IssueKey]

\* the pattern tier recovered a user holding a closing brace
C11_Witness ==
    /\ called
    /\ first.via = "manual"
    /\ tier_status(text, first) = "PARTIAL"
    /\ \E i \in 1..Len(first.rec[UserKey].s) : first.rec[UserKey].s[i] = RB

StatusKey == <<"extraction_status">>

\* C12: every returned record carries an extraction_status naming the tier
\* that produced it: FULL exactly when the strict-JSON tier accepted, PARTIAL
\* exactly when it did not and a field matched the pattern, FALLBACK exactly
\* when nothing was recovered.
C12_StatusCarried ==
    called =>
        LET st == tier_status(text, first)
            anyMatch == \E f \in Required : Matched(text, f).found
        IN  /\ ~first.none =>
                   /\ HasStr(first.rec, "extraction_status")
                   /\ first.rec[StatusKey].s = <<st>>
            /\ (st = "FULL") <=> SpanParses(text)
            /\ (st = "PARTIAL") <=> (~SpanParses(text) /\ anyMatch)
            /\ (st = "FALLBACK") <=> (~SpanParses(text) /\ ~anyMatch)

----------------------------------------------------------------------------
(* call_openrouter_api, lines 140-182: what a call returns *)

\* line 167, status 404
ErrNotFound == "Model not found. Try a different model."
\* line 169, status 429
ErrRateLimit == "Rate limit exceeded. Please try again later."
\* line 175, another status whose message quotes a 404
ErrUpstream404 == "API Error 502: upstream returned 404"
\* line 178
ErrTimeout == "Request timeout. Please try again."

ApiErrors == {ErrNotFound, ErrRateLimit, ErrUpstream404, ErrTimeout}

\* line 529: "not found" in error.lower() or "404" in error
MentionsNotFound(err) == err \in {ErrNotFound, ErrUpstream404}

\* the messages of st.error in the three handlers
MsgParse == "Failed to parse JSON. The AI might not have followed instructions. Please try again."
MsgNoResponse == "No response from AI."

ErrorMsgs == ApiErrors \cup {MsgParse, MsgNoResponse}

\* replies to the ticket prompt: a JSON ticket, a fenced one, prose, an empty
\* object, a span that is not JSON, and an empty content
TicketReplies ==
    {dumps(<<"x">>, <<"x", " ", "x">>),
     FenceJson \o <<NL>> \o dumps(<<"x">>, <<"x">>) \o <<NL>> \o Fence,
     <<"x", " ", "x">>,
     <<LB, RB>>,
     <<LB, "x", RB>>,
     <<>>}

\* replies to the hint and validation prompts; the empty one is falsy
HintReplies == {"Consider checking the cable.", ""}
CheckReplies == {"YES: this would work.", "NO: this would not work.", ""}

\* what the user may type into the text area
Responses == {"", "   ", "Restart the router."}

\* response.strip() is empty
Blank(r) == r \in {"", "   "}

Difficulties == {"simple", "medium", "complex"}

\* line 531
FallbackModels == <<Gemini, Llama32>>

\* lines 434-438
RecModels == {Chimera, Gemini, Llama32}

\* API catalogs of at most MaxCatalog entries, drawn from these ids
CatalogIds == {Chimera, Gemini, Llama32, Qwen, Gpt4o, Llama32Vision, EmptyId}

LongCatalog ==
    <<Gpt4o, Gpt4oMini, Sonnet, GeminiPro, MistralLarge, Grok, VisionPro, Embedding>>
        \o FREE_MODELS

ReversedLongCatalog == [i \in 1..Len(LongCatalog) |-> LongCatalog[Len(LongCatalog) + 1 - i]]

Catalogs ==
    UNION {[1..n -> CatalogIds] : n \in 0..MaxCatalog}
        \cup {LongCatalog, ReversedLongCatalog}

\* every reply of the models endpoint: a failure, or status 200 with a catalog
CatalogApis == {[ok |-> FALSE, data |-> <<>>]} \cup {[ok |-> TRUE, data |-> c] : c \in Catalogs}

\* the replies of the models endpoint used when the whole session is run
SessionApis ==
    {[ok |-> FALSE, data |-> <<>>],
     [ok |-> TRUE, data |-> <<Gpt4o, Gemini>>],
     [ok |-> TRUE, data |-> <<Qwen, Llama32>>],
     [ok |-> TRUE, data |-> <<Qwen>>]}

----------------------------------------------------------------------------
(* The script runs.  Every user interaction runs the script once; a handler *)
(* that calls st.rerun() ends its run there and the script runs again.     *)

Truthy(v) == ~v.none /\ v.s # ""

\* st.session_state.ticket is a non-empty dict
HasTicket == ~ticket.none /\ DOMAIN ticket.rec # {}

\* the page is rendered and waits for the user
Idle == ~rerun /\ available_models_working # <<>>

\* lines 369-374 and 387-394 in the first script run
FirstRunFrom(apis) ==
    /\ ~rerun
    /\ available_models_working = <<>>
    /\ \E api \in apis :
        LET list == get_available_models_from_api(api)
            sel == IF InList(selected_model, list) THEN selected_model
                   ELSE IF list # <<>> THEN list[1] ELSE FREE_MODELS[1]
        IN  /\ available_models_working' = list
            /\ selected_model' = sel
            /\ model_selector' = sel
    /\ shown' = ""
    /\ UNCHANGED <<ticket, validation, agent_response, solution_effective, rerun>>
    /\ UNCHANGED evars

\* lines 425-428: Refresh Models List
RefreshFrom(apis) ==
    /\ Idle
    /\ \E api \in apis :
        available_models_working' = get_available_models_from_api(api)
    /\ rerun' = TRUE
    /\ shown' = ""
    /\ UNCHANGED <<ticket, validation, agent_response, selected_model,
                   solution_effective, model_selector>>
    /\ UNCHANGED evars

\* lines 387-394 in the run that st.rerun() starts: the selectbox shows the
\* option at the index of selected_model when the widget is built anew, or
\* the option it held when the widget keeps its value and the list has it
Rerun ==
    /\ rerun
    /\ LET list == available_models_working
           fresh == IF InList(selected_model, list) THEN selected_model ELSE list[1]
           kept == IF InList(model_selector, list) THEN model_selector ELSE fresh
       IN  \E sel \in {fresh, kept} :
               /\ selected_model' = sel
               /\ model_selector' = sel
    /\ rerun' = FALSE
    /\ shown' = ""
    /\ UNCHANGED <<ticket, validation, agent_response, solution_effective,
                   available_models_working>>
    /\ UNCHANGED evars

\* the options the user is seen to pick in the selectbox
PickedModels == {Chimera, Gemini, Llama32, Qwen, Gpt4o}

\* lines 387-394: the user picks a model in the selectbox
SelectModel ==
    /\ Idle
    /\ \E m \in PickedModels :
        /\ InList(m, available_models_working)
        /\ m # selected_model
        /\ selected_model' = m
        /\ model_selector' = m
    /\ shown' = ""
    /\ UNCHANGED <<ticket, validation, agent_response, solution_effective,
                   available_models_working, rerun>>
    /\ UNCHANGED evars

\* lines 440-444: a "Use ..." button of the recommended models
UseRecommended ==
    /\ Idle
    /\ \E m \in RecModels :
        /\ InList(m, available_models_working)
        /\ selected_model' = m
    /\ rerun' = TRUE
    /\ shown' = ""
    /\ UNCHANGED <<ticket, validation, agent_response, solution_effective,
                   available_models_working, model_selector>>
    /\ UNCHANGED evars

\* line 467: Refresh App
RefreshApp ==
    /\ Idle
    /\ rerun' = TRUE
    /\ shown' = ""
    /\ UNCHANGED <<ticket, validation, agent_response, selected_model,
                   solution_effective, available_models_working, model_selector>>
    /\ UNCHANGED evars

\* time passes while the page waits
Wait ==
    /\ Idle
    /\ now < MaxClock
    /\ now' = now + 1
    /\ UNCHANGED <<text, pc, first, second>>
    /\ UNCHANGED svars

ModelKey == <<"model">>
DifficultyKey == <<"difficulty">>

\* lines 531-533: the first fallback that the list holds
first_fallback(list) ==
    FallbackModels[Min({i \in 1..Len(FallbackModels) : InList(FallbackModels[i], list)})]

\* lines 526-535: the call returned an error
GenerateError(err) ==
    /\ shown' = err
    /\ IF /\ MentionsNotFound(err)
          /\ \E i \in 1..Len(FallbackModels) :
                InList(FallbackModels[i], available_models_working)
       THEN /\ selected_model' = first_fallback(available_models_working)
            /\ rerun' = TRUE
       ELSE UNCHANGED <<selected_model, rerun>>
    /\ UNCHANGED <<ticket, validation, agent_response, solution_effective,
                   available_models_working, model_selector>>

\* lines 545-547: the three keys the handler writes into the parsed dict
stamp(rec, clock, model, d) ==
    (TimestampKey :> Str(strftime(clock))) @@ (ModelKey :> Str(model))
        @@ (DifficultyKey :> Str(<<d>>)) @@ rec

\* lines 536-556: the call returned a content
GenerateReply(reply, d) ==
    IF reply = <<>>
    THEN /\ shown' = MsgNoResponse
         /\ UNCHANGED <<ticket, validation, agent_response, selected_model,
                        solution_effective, available_models_working,
                        model_selector, rerun>>
    ELSE LET ticket_json == parse_json_from_text(reply, now)
         IN  IF ticket_json.none \/ DOMAIN ticket_json.rec = {}
             THEN /\ shown' = MsgParse
                  /\ UNCHANGED <<ticket, validation, agent_response, selected_model,
                                 solution_effective, available_models_working,
                                 model_selector, rerun>>
             ELSE /\ ticket' = [none |-> FALSE,
                                rec |-> stamp(ticket_json.rec, now, selected_model, d)]
                  /\ agent_response' = ""
                  /\ validation' = PyNone
                  /\ solution_effective' = PyNone
                  /\ rerun' = TRUE
                  /\ shown' = ""
                  /\ UNCHANGED <<selected_model, available_models_working,
                                 model_selector>>

\* lines 498-559: Generate Practice Ticket
Generate ==
    /\ Idle
    /\ ~HasTicket
    /\ \E d \in Difficulties :
        \/ \E err \in ApiErrors : GenerateError(err)
        \/ \E reply \in TicketReplies : GenerateReply(reply, d)
    /\ UNCHANGED evars

\* lines 601-611: the user edits the text area
EditResponse ==
    /\ Idle
    /\ HasTicket
    /\ \E response \in Responses :
        /\ response # agent_response
        /\ agent_response' = response
    /\ shown' = ""
    /\ UNCHANGED <<ticket, validation, selected_model, solution_effective,
                   available_models_working, model_selector, rerun>>
    /\ UNCHANGED evars

\* a faulty handler: the reply is stored before the error is looked at
GetHints_stores_first ==
    /\ Idle
    /\ HasTicket
    /\ ~Blank(agent_response)
    /\ \/ \E err \in ApiErrors :
            /\ shown' = err
            /\ validation' = Some("")
            /\ UNCHANGED rerun
       \/ \E response_text \in HintReplies :
            /\ validation' = Some(response_text)
            /\ IF response_text # ""
               THEN shown' = "" /\ rerun' = TRUE
               ELSE shown' = MsgNoResponse /\ UNCHANGED rerun
    /\ UNCHANGED <<ticket, agent_response, selected_model, solution_effective,
                   available_models_working, model_selector>>
    /\ UNCHANGED evars

\* lines 623-662: Get Hints
GetHints ==
    /\ Idle
    /\ HasTicket
    /\ ~Blank(agent_response)
    /\ \/ \E err \in ApiErrors :
            /\ shown' = err
            /\ UNCHANGED <<validation, rerun>>
       \/ \E response_text \in HintReplies :
            IF response_text # ""
            THEN /\ validation' = Some(response_text)
                 /\ rerun' = TRUE
                 /\ shown' = ""
            ELSE /\ shown' = MsgNoResponse
                 /\ UNCHANGED <<validation, rerun>>
    /\ UNCHANGED <<ticket, agent_response, selected_model, solution_effective,
                   available_models_working, model_selector>>
    /\ UNCHANGED evars

\* lines 665-703: Check Solution
CheckSolution ==
    /\ Idle
    /\ HasTicket
    /\ ~Blank(agent_response)
    /\ \/ \E err \in ApiErrors :
            /\ shown' = err
            /\ UNCHANGED <<solution_effective, rerun>>
       \/ \E response_text \in CheckReplies :
            IF response_text # ""
            THEN /\ solution_effective' = Some(response_text)
                 /\ rerun' = TRUE
                 /\ shown' = ""
            ELSE /\ shown' = MsgNoResponse
                 /\ UNCHANGED <<solution_effective, rerun>>
    /\ UNCHANGED <<ticket, agent_response, selected_model, validation,
                   available_models_working, model_selector>>
    /\ UNCHANGED evars

\* a faulty handler: the typed response survives the ticket
NewTicket_keeps_response ==
    /\ Idle
    /\ HasTicket
    /\ ticket' = NoTicket
    /\ validation' = PyNone
    /\ solution_effective' = PyNone
    /\ rerun' = TRUE
    /\ shown' = ""
    /\ UNCHANGED <<agent_response, selected_model, available_models_working,
                   model_selector>>
    /\ UNCHANGED evars

\* lines 705-712: New Ticket
NewTicket ==
    /\ Idle
    /\ HasTicket
    /\ ticket' = NoTicket
    /\ validation' = PyNone
    /\ solution_effective' = PyNone
    /\ agent_response' = ""
    /\ rerun' = TRUE
    /\ shown' = ""
    /\ UNCHANGED <<selected_model, available_models_working, model_selector>>
    /\ UNCHANGED evars

----------------------------------------------------------------------------
(* The model list against every catalog, and the whole session *)

\* no extraction is in progress
ExtractorIdle ==
    /\ text = <<>>
    /\ now = 0
    /\ pc = "start"
    /\ first = NoResult
    /\ second = NoResult

SessionInit == ExtractorIdle /\ SessionStart

CatalogNext ==
    \/ FirstRunFrom(CatalogApis)
    \/ RefreshFrom(CatalogApis)
    \/ Rerun
    \/ SelectModel
    \/ UseRecommended

CatalogSpec == SessionInit /\ [][CatalogNext]_vars

SessionNext ==
    \/ FirstRunFrom(SessionApis)
    \/ RefreshFrom(SessionApis)
    \/ Rerun
    \/ SelectModel
    \/ UseRecommended
    \/ RefreshApp
    \/ Wait
    \/ Generate
    \/ EditResponse
    \/ GetHints
    \/ CheckSolution
    \/ NewTicket

SessionSpec == SessionInit /\ [][SessionNext]_vars

----------------------------------------------------------------------------
(* Claims about the model list and the session *)

\* C13: every model of the selectable list is a free model, its id holding
\* ":free", whatever catalog the API returned and also when the API failed.
C13_AllListedFree ==
    \A i \in 1..Len(available_models_working) :
        Contains(available_models_working[i], ":free")

Preferred(id) ==
    \/ Contains(id, "deepseek-r1t-chimera")
    \/ Contains(id, "gemini-2.0-flash-exp")
    \/ Contains(id, "llama-3.2")

\* C14: in the list built from any catalog, the preferred free models stand
\* ahead of every other free model.
C14_PreferredFirst ==
    \A i, j \in 1..Len(available_models_working) :
        LET a == available_models_working[i]
            b == available_models_working[j]
        IN  (i < j /\ Contains(a, ":free") /\ Contains(b, ":free") /\ Preferred(b))
                => Preferred(a)

\* C15: when Generate fails with the model-not-found error and the list holds
\* one of the two fallback models, the handler leaves another model selected
\* than the one that just failed.
C15_FallbackSwitches ==
    [][(/\ Idle
        /\ ~HasTicket
        /\ shown' = ErrNotFound
        /\ \E i \in 1..Len(FallbackModels) :
              InList(FallbackModels[i], available_models_working))
            => selected_model' # selected_model]_vars

Cleared == validation = PyNone /\ solution_effective = PyNone /\ agent_response = ""

\* C16: whenever no ticket is held, validation and solution_effective are
\* None and agent_response is empty; and the step that stores a new ticket
\* leaves those three fields cleared.
C16_SessionInvariant ==
    /\ [](ticket.none => Cleared)
    /\ [][(ticket.none /\ ~ticket'.none) => Cleared']_vars

\* C16 witness: a ticket stamped with the present time, later than the start
\* of the session, is held with the three fields cleared, its rerun pending.
C16_Witness ==
    /\ HasTicket
    /\ rerun
    /\ Cleared
    /\ now > 0
    /\ ticket.rec[TimestampKey] = Str(strftime(now))

====
